---- MODULE Spec2Model ----
(***************************************************************************)
(* A model of the gateway test harness: the GatewayClient of               *)
(* src/gateway/client.py (join / sign / authenticate, _rpc_call and the    *)
(* calls built on it) and the scenario scripts of src/scenarios that       *)
(* sequence client calls (balance polling, fund distribution, the join     *)
(* rate-limit worker pool).                                                *)
(*                                                                         *)
(* Strings the code inspects character by character (hex results, tokens)  *)
(* are sequences of one-character strings; every other string is an opaque *)
(* TLA+ string.  The gateway's answer to an HTTP request is a transport    *)
(* exception raised by the HTTP library, or a response with a status and   *)
(* a body.                                                                 *)
(***************************************************************************)
EXTENDS Integers, Sequences, FiniteSets, TLC

VARIABLES
    \* ---- wait_for_funds (the polling loop of the scenarios)
    wait_pc,            \* "loop" | "sleep" | "returned" | "raised"
    now,                \* time.time(), in seconds
    start_time,         \* the local start_time
    timeout_seconds,    \* parameter
    check_interval,     \* parameter
    balance,            \* the local balance (None before the first read)
    wait_ret,           \* the returned value / the exception raised
    last_poll,          \* history: how the latest get_balance call ended
    last_answer,        \* history: the gateway's answer to the latest poll
    had_error,          \* history: some poll ended in an exception
    \* ---- GatewayClient
    token,              \* self.token
    authed,             \* history: authenticate() returned True for self.token
    call,               \* the last client operation: its name, the steps it
                        \* performed, its outcome and its return value
    \* ---- fund expiration stress scenario, main()
    stress_pc,
    initial_balance,
    gas_price,
    total_session_keys,
    gas_reserve,
    amount_per_session_key,
    idx,
    successful_transfers,
    failed_transfers,
    total_sent,
    \* ---- join rate limit scenario, main()
    futures,            \* the submitted futures, by request number
    status_codes,       \* the results list
    main_pc,
    counts,             \* success / rate_limited / other
    \* ---- single session key scenarios, main()
    scn_pc,
    estimated_gas,
    transfer_amount,
    session_key_balance,
    return_gas_price,
    return_estimated_gas,
    return_amount,
    receipt,            \* the receipt that wait_for_tx_receipt returned
    \* ---- fund expiration stress scenario, main(), steps 4 to 7
    total_session_key_balance,
    main_balance_after_distribution,
    main_balance_after_expiration,
    total_session_key_balance_after,
    test_passed,
    \* ---- return funds on delete scenario, main(), steps 5 and 6
    balance_before_deletion,
    deleted,
    final_balance,
    session_key_final_balance

waitVars   == <<wait_pc, now, start_time, timeout_seconds, check_interval,
                balance, wait_ret, last_poll, last_answer, had_error>>
clientVars == <<token, authed, call>>
stressVars == <<stress_pc, initial_balance, gas_price, total_session_keys,
                gas_reserve, amount_per_session_key, idx,
                successful_transfers, failed_transfers, total_sent>>
rateVars   == <<futures, status_codes, main_pc, counts>>
scnVars    == <<scn_pc, estimated_gas, transfer_amount, session_key_balance,
                return_gas_price, return_estimated_gas, return_amount,
                receipt>>
expVars    == <<total_session_key_balance, main_balance_after_distribution,
                main_balance_after_expiration, total_session_key_balance_after,
                test_passed>>
delVars    == <<balance_before_deletion, deleted, final_balance,
                session_key_final_balance>>
vars       == <<waitVars, clientVars, stressVars, rateVars, scnVars, expVars,
                delVars>>

None == "None"

(***************************************************************************)
(* Bounds of the model.                                                    *)
(***************************************************************************)
MaxTimeout  == 4    \* timeout_seconds ranges over 0..MaxTimeout
MaxInterval == 2    \* check_interval ranges over 1..MaxInterval
MaxCallTime == 2    \* one get_balance call takes 0..MaxCallTime seconds

(***************************************************************************)
(* Character strings.                                                      *)
(***************************************************************************)
RECURSIVE Rep(_, _)
Rep(c, n) == IF n <= 0 THEN <<>> ELSE <<c>> \o Rep(c, n - 1)

\* s[a:b] of Python for 0 <= a
Slice(s, a, b) ==
    LET hi == IF b < Len(s) THEN b ELSE Len(s)
    IN  IF a >= hi THEN <<>> ELSE SubSeq(s, a + 1, hi)

\* s.startswith('0x')
StartsWith0x(s) == Len(s) >= 2 /\ s[1] = "0" /\ s[2] = "x"

\* s.lstrip('0')
RECURSIVE LStripZeros(_)
LStripZeros(s) ==
    IF s # <<>> /\ s[1] = "0" THEN LStripZeros(Tail(s)) ELSE s

\* s.zfill(n) for a string without a sign
ZFill(s, n) == Rep("0", n - Len(s)) \o s

HexDigits == {"0", "1", "2", "3", "4", "5", "6", "7", "8", "9",
              "a", "b", "c", "d", "e", "f", "A", "B", "C", "D", "E", "F"}

HexVal(c) ==
    CASE c = "0" -> 0  [] c = "1" -> 1  [] c = "2" -> 2  [] c = "3" -> 3
      [] c = "4" -> 4  [] c = "5" -> 5  [] c = "6" -> 6  [] c = "7" -> 7
      [] c = "8" -> 8  [] c = "9" -> 9
      [] c \in {"a", "A"} -> 10  [] c \in {"b", "B"} -> 11
      [] c \in {"c", "C"} -> 12  [] c \in {"d", "D"} -> 13
      [] c \in {"e", "E"} -> 14  [] c \in {"f", "F"} -> 15

IsHex(s) == \A i \in 1..Len(s) : s[i] \in HexDigits

RECURSIVE HexNum(_)
HexNum(s) == IF s = <<>> THEN 0 ELSE 16 * HexNum(SubSeq(s, 1, Len(s) - 1)) + HexVal(s[Len(s)])

ValueError == "ValueError"

\* int(s, 16) of Python on a string of letters and digits: an optional 0x
\* prefix, then at least one hex digit (PyIntHex); anything else raises
\* ValueError (~ PyIntHexOk).
PyIntHexBody(s) == IF StartsWith0x(s) THEN Slice(s, 2, Len(s)) ELSE s

PyIntHexOk(s) == PyIntHexBody(s) # <<>> /\ IsHex(PyIntHexBody(s))

PyIntHex(s) == HexNum(PyIntHexBody(s))

(***************************************************************************)
(* The HTTP library (requests).  A call either raises a transport          *)
(* exception or yields a response; response.raise_for_status() raises      *)
(* HTTPError for the 4xx and 5xx statuses only; response.json() raises     *)
(* when the body is not JSON.                                              *)
(***************************************************************************)
\* the "result" member of a JSON-RPC response object
Absent   == [kind |-> "absent", chars |-> <<>>]   \* no "result" key
Null     == [kind |-> "null", chars |-> <<>>]     \* "result": null
Str(s)   == [kind |-> "string", chars |-> s]      \* "result": "<s>"

\* a body that response.json() cannot decode
NotJson  == [valid |-> FALSE, error |-> FALSE, result |-> Absent]

HttpStatuses == {200, 304, 429, 500}

\* a JSON-RPC response object: whether it holds "error", and its "result"
Json(err, res) == [valid |-> TRUE, error |-> err, result |-> res]

TransportError == [exc |-> TRUE, status |-> 0, text |-> "", json |-> NotJson]
Response(st, txt, js) == [exc |-> FALSE, status |-> st, text |-> txt, json |-> js]

RaiseForStatus(status) == 400 <= status /\ status < 600

(***************************************************************************)
(* GatewayClient.  Every operation is an operator from the client's state  *)
(* and the gateway's answers to the operation's result:                    *)
(*   steps   the HTTP requests sent and signatures made, in order          *)
(*   outcome "return" or "raise"                                           *)
(*   value   the value returned, or the exception raised                   *)
(*   token   self.token after the operation                                *)
(***************************************************************************)
NoAnswer == [exc |-> FALSE, status |-> 0, text |-> "", json |-> NotJson]

HttpStep(what, tok, method, params, answer) ==
    [kind |-> "http", what |-> what, token |-> tok, method |-> method,
     params |-> params, answer |-> answer]

SignStep(tok) ==
    [kind |-> "sign", what |-> "sign", token |-> tok, method |-> None,
     params |-> <<>>, answer |-> NoAnswer]

Return(steps, value, tok) ==
    [steps |-> steps, outcome |-> "return", value |-> value, token |-> tok]

Raise(steps, exception, tok) ==
    [steps |-> steps, outcome |-> "raise", value |-> exception, token |-> tok]

\* join(): GET /join/, self.token = response.text, no status check
Join(tok, answer) ==
    LET step == HttpStep("GET /join/", None, None, <<>>, answer)
    IN  IF answer.exc THEN Raise(<<step>>, "ConnectionError", tok)
        ELSE Return(<<step>>, answer.text, answer.text)

\* the tokens that the signing library accepts as an address
AddressTokens == {"a1", "b2"}

Signature(tok) == <<"signature", tok>>

\* sign(): signs "0x" + self.token as typed data; the signing library accepts
\* or rejects a token that is no address (accepted is its choice there)
Sign(tok, accepted) ==
    IF tok \in AddressTokens \/ accepted
    THEN Return(<<SignStep(tok)>>, Signature(tok), tok)
    ELSE Raise(<<SignStep(tok)>>, "SigningError", tok)

\* authenticate(signature) without response.raise_for_status()
AuthenticateNoStatusCheck(tok, signature, answer) ==
    LET step == HttpStep("POST /authenticate/", tok, None, <<signature>>, answer)
    IN  IF answer.exc THEN Raise(<<step>>, "ConnectionError", tok)
        ELSE IF answer.text = "success" THEN Return(<<step>>, TRUE, tok)
        ELSE Return(<<step>>, FALSE, tok)

\* authenticate(signature)
Authenticate(tok, signature, answer) ==
    LET step == HttpStep("POST /authenticate/", tok, None, <<signature>>, answer)
    IN  IF answer.exc THEN Raise(<<step>>, "ConnectionError", tok)
        ELSE IF RaiseForStatus(answer.status) THEN Raise(<<step>>, "HTTPError", tok)
        ELSE IF answer.text = "success" THEN Return(<<step>>, TRUE, tok)
        ELSE Return(<<step>>, FALSE, tok)

\* full_auth_flow() signing before it joins
FullAuthFlowSignFirst(tok, joinAnswer, accepted, authAnswer) ==
    LET s == Sign(tok, accepted)
        j == Join(tok, joinAnswer)
        a == Authenticate(j.token, s.value, authAnswer)
    IN  IF s.outcome = "raise" THEN s
        ELSE IF j.outcome = "raise" THEN Raise(s.steps \o j.steps, j.value, j.token)
        ELSE [a EXCEPT !.steps = s.steps \o j.steps \o a.steps]

\* full_auth_flow(): self.join(); signature = self.sign();
\* return self.authenticate(signature)
FullAuthFlow(tok, joinAnswer, accepted, authAnswer) ==
    LET j == Join(tok, joinAnswer)
        s == Sign(j.token, accepted)
        a == Authenticate(s.token, s.value, authAnswer)
    IN  IF j.outcome = "raise" THEN j
        ELSE IF s.outcome = "raise" THEN Raise(j.steps \o s.steps, s.value, s.token)
        ELSE [a EXCEPT !.steps = j.steps \o s.steps \o a.steps]

\* _rpc_call(method, params) without the check of the "error" field
RpcCallIgnoringError(tok, method, params, answer) ==
    LET step == HttpStep("POST /", tok, method, params, answer)
    IN  IF tok = None THEN Raise(<<>>, ValueError, tok)
        ELSE IF answer.exc THEN Raise(<<step>>, "ConnectionError", tok)
        ELSE IF RaiseForStatus(answer.status) THEN Raise(<<step>>, "HTTPError", tok)
        ELSE IF ~answer.json.valid THEN Raise(<<step>>, "JSONDecodeError", tok)
        ELSE Return(<<step>>, answer.json, tok)

\* _rpc_call(method, params)
RpcCall(tok, method, params, answer) ==
    LET step == HttpStep("POST /", tok, method, params, answer)
    IN  IF tok = None THEN Raise(<<>>, ValueError, tok)
        ELSE IF answer.exc THEN Raise(<<step>>, "ConnectionError", tok)
        ELSE IF RaiseForStatus(answer.status) THEN Raise(<<step>>, "HTTPError", tok)
        ELSE IF ~answer.json.valid THEN Raise(<<step>>, "JSONDecodeError", tok)
        ELSE IF answer.json.error THEN Raise(<<step>>, ValueError, tok)
        ELSE Return(<<step>>, answer.json, tok)

\* int(result["result"], 16) guarded by `"result" in result`, as in
\* get_balance, get_transaction_count, get_gas_price and estimate_gas
HexResult(r) ==
    IF r.outcome = "raise" THEN r
    ELSE IF r.value.result.kind = "absent" THEN Raise(r.steps, ValueError, r.token)
    ELSE IF r.value.result.kind = "null" THEN Raise(r.steps, "TypeError", r.token)
    ELSE IF ~PyIntHexOk(r.value.result.chars) THEN Raise(r.steps, ValueError, r.token)
    ELSE Return(r.steps, PyIntHex(r.value.result.chars), r.token)

\* get_balance(address, "latest")
GetBalance(tok, address, answer) ==
    HexResult(RpcCall(tok, "eth_getBalance", <<address, "latest">>, answer))

(***************************************************************************)
(* Web3.to_checksum_address: rejects what is not "0x" + 40 hex digits,     *)
(* lower-cases the digits and then upper-cases the letters that the        *)
(* Keccak hash of the lower-cased address selects.  The hash is not        *)
(* modelled: `hash` is one of CasePatterns, and says which positions it    *)
(* selects.                                                                *)
(***************************************************************************)
CasePatterns == {"none", "all", "odd"}

Selected(hash, i) ==
    CASE hash = "none" -> FALSE
      [] hash = "all"  -> TRUE
      [] hash = "odd"  -> i % 2 = 1

LowerChar(c) ==
    CASE c = "A" -> "a" [] c = "B" -> "b" [] c = "C" -> "c"
      [] c = "D" -> "d" [] c = "E" -> "e" [] c = "F" -> "f"
      [] OTHER -> c

UpperChar(c) ==
    CASE c = "a" -> "A" [] c = "b" -> "B" [] c = "c" -> "C"
      [] c = "d" -> "D" [] c = "e" -> "E" [] c = "f" -> "F"
      [] OTHER -> c

IsAddress(a) == Len(a) = 42 /\ StartsWith0x(a) /\ IsHex(Slice(a, 2, 42))

ToChecksumAddress(a, hash) ==
    <<"0", "x">> \o
    [i \in 1..40 |-> IF Selected(hash, i) THEN UpperChar(LowerChar(a[i + 2]))
                     ELSE LowerChar(a[i + 2])]

(***************************************************************************)
(* Session keys: the two overloads of eth_getStorageAt.                    *)
(***************************************************************************)
create_session_key_addr == "0x0000000000000000000000000000000000000003"

\* delete_session_key addressing the reserved address of create_session_key
DeleteAtCreateAddress == "0x0000000000000000000000000000000000000003"

delete_session_key_addr == "0x0000000000000000000000000000000000000004"
position == "0x0000000000000000000000000000000000000000000000000000000000000000"

\* json.dumps({"sessionKeyAddress": a})
JsonDumps(a) == [json_string_of |-> [sessionKeyAddress |-> a]]

\* sk_bytes_hex without its '0x' prefix
Strip0x(s) == IF StartsWith0x(s) THEN Slice(s, 2, Len(s)) ELSE s

\* create_session_key taking the last 20 bytes of a 32-byte slot
AddressHexLast(sk_bytes_hex) ==
    IF Len(sk_bytes_hex) = 40 THEN sk_bytes_hex
    ELSE IF Len(sk_bytes_hex) >= 64
         THEN Slice(sk_bytes_hex, Len(sk_bytes_hex) - 40, Len(sk_bytes_hex))
    ELSE Slice(ZFill(sk_bytes_hex, 40), 0, 40)

\* the 40 hex digits that create_session_key takes from the result
AddressHex(sk_bytes_hex) ==
    IF Len(sk_bytes_hex) = 40 THEN sk_bytes_hex
    ELSE IF Len(sk_bytes_hex) >= 64 THEN Slice(sk_bytes_hex, 0, 40)
    ELSE Slice(ZFill(sk_bytes_hex, 40), 0, 40)

\* create_session_key()
CreateSessionKey(tok, answer, hash) ==
    LET r == RpcCall(tok, "eth_getStorageAt",
                     <<create_session_key_addr, position, "latest">>, answer)
        sk_address == <<"0", "x">> \o AddressHex(Strip0x(r.value.result.chars))
    IN  IF r.outcome = "raise" THEN r
        ELSE IF r.value.result.kind = "absent" THEN Raise(r.steps, ValueError, tok)
        ELSE IF r.value.result.kind = "null" THEN Raise(r.steps, "AttributeError", tok)
        ELSE IF ~IsAddress(sk_address) THEN Raise(r.steps, ValueError, tok)
        ELSE Return(r.steps, ToChecksumAddress(sk_address, hash), tok)

\* result_hex of delete_session_key that keeps the '0x' prefix
ResultHexKeepPrefix(s) ==
    LET stripped == LStripZeros(s)
    IN  IF stripped = <<>> THEN <<"0">> ELSE stripped

\* result_hex of delete_session_key, as it is handed to int(result_hex, 16)
ResultHex(s) ==
    LET stripped == LStripZeros(Strip0x(s))
    IN  IF stripped = <<>> THEN <<"0">> ELSE stripped

\* delete_session_key(session_key_address)
DeleteSessionKey(tok, session_key_address, answer, hash) ==
    LET r == RpcCall(tok, "eth_getStorageAt",
                     <<delete_session_key_addr,
                       JsonDumps(ToChecksumAddress(session_key_address, hash)),
                       "latest">>, answer)
        result_hex == ResultHex(r.value.result.chars)
    IN  IF ~IsAddress(session_key_address) THEN Raise(<<>>, ValueError, tok)
        ELSE IF r.outcome = "raise" THEN r
        ELSE IF r.value.result.kind = "absent" THEN Raise(r.steps, ValueError, tok)
        ELSE IF r.value.result.kind = "null" THEN Raise(r.steps, "AttributeError", tok)
        ELSE IF ~PyIntHexOk(result_hex) THEN Raise(r.steps, ValueError, tok)
        ELSE Return(r.steps, PyIntHex(result_hex) = 1, tok)

(***************************************************************************)
(* Transactions of a session key.  hex(n) of Python is "0x" and the        *)
(* lower-case hex digits of n, with a leading "-" for a negative n.  An    *)
(* optional argument (gas, gas_price) is <<>> for None and <<n>> for the   *)
(* integer n.                                                              *)
(***************************************************************************)
HexChar(d) ==
    <<"0", "1", "2", "3", "4", "5", "6", "7", "8", "9",
      "a", "b", "c", "d", "e", "f">>[d + 1]

RECURSIVE HexDigitsOf(_)
HexDigitsOf(n) ==
    IF n < 16 THEN <<HexChar(n)>>
    ELSE HexDigitsOf(n \div 16) \o <<HexChar(n % 16)>>

\* hex(n)
PyHex(n) ==
    IF n < 0 THEN <<"-", "0", "x">> \o HexDigitsOf(0 - n)
    ELSE <<"0", "x">> \o HexDigitsOf(n)

\* get_transaction_count(address, "latest")
GetTransactionCount(tok, address, answer) ==
    HexResult(RpcCall(tok, "eth_getTransactionCount", <<address, "latest">>,
                      answer))

\* get_gas_price()
GetGasPrice(tok, answer) ==
    HexResult(RpcCall(tok, "eth_gasPrice", <<>>, answer))

\* estimate_gas(from_address, to_address, value_wei) without data; hashes
\* gives the checksum pattern of each of the two addresses
EstimateGas(tok, from_address, to_address, value_wei, answer, hashes) ==
    LET call_obj == [from  |-> ToChecksumAddress(from_address, hashes.from),
                     to    |-> ToChecksumAddress(to_address, hashes.to),
                     value |-> PyHex(value_wei)]
    IN  IF ~IsAddress(from_address) \/ ~IsAddress(to_address)
        THEN Raise(<<>>, ValueError, tok)
        ELSE HexResult(RpcCall(tok, "eth_estimateGas", <<call_obj>>, answer))

\* `x is None` answering True for a supplied argument as well
IsNoneAlways(x) == TRUE

\* `x is None` for an optional argument
IsNone(x) == x = <<>>

\* send_transaction_from_session_key(session_key_address, to_address,
\* value_wei, gas, gas_price), where sk_address, to and price stand for
\* session_key_address, to_address and gas_price; answers holds the
\* gateway's answer to each of the four requests the method can send
SendTransactionFromSessionKey(tok, sk_address, to, value_wei, gas, price, answers, hashes) ==
    LET from == ToChecksumAddress(sk_address, hashes.from)
        to_checksummed == ToChecksumAddress(to, hashes.to)
        n == GetTransactionCount(tok, from, answers.nonce)
        p == IF IsNone(price) THEN GetGasPrice(tok, answers.price)
             ELSE Return(<<>>, price[1], tok)
        g == IF IsNone(gas)
             THEN EstimateGas(tok, from, to_checksummed, value_wei, answers.estimate, hashes)
             ELSE Return(<<>>, gas[1], tok)
        transaction == [from     |-> from,
                        to       |-> to_checksummed,
                        value    |-> PyHex(value_wei),
                        gas      |-> PyHex(g.value),
                        gasPrice |-> PyHex(p.value),
                        nonce    |-> PyHex(n.value)]
        s == RpcCall(tok, "eth_sendTransaction", <<transaction>>, answers.send)
        before == n.steps \o p.steps \o g.steps
    IN  IF ~IsAddress(sk_address) \/ ~IsAddress(to)
        THEN Raise(<<>>, ValueError, tok)
        ELSE IF n.outcome = "raise" THEN n
        ELSE IF p.outcome = "raise" THEN Raise(n.steps \o p.steps, p.value, tok)
        ELSE IF g.outcome = "raise" THEN Raise(before, g.value, tok)
        ELSE IF s.outcome = "raise" THEN Raise(before \o s.steps, s.value, tok)
        ELSE IF s.value.result.kind = "absent"
             THEN Raise(before \o s.steps, ValueError, tok)
        ELSE Return(before \o s.steps, s.value.result, tok)

(***************************************************************************)
(* The client as a state machine: the caller invokes the operations in any *)
(* order, and the gateway answers each request with any of its answers.    *)
(***************************************************************************)
\* a token with 200, 304 without a body, the gateway's error pages
JoinAnswers ==
    {TransportError, Response(200, "a1", NotJson), Response(200, "b2", NotJson),
     Response(304, "", NotJson), Response(429, "rate limited", NotJson),
     Response(500, "a1", NotJson)}

AuthAnswers ==
    {TransportError, Response(200, "success", NotJson),
     Response(200, "Success", NotJson), Response(200, "", NotJson),
     Response(304, "success", NotJson), Response(429, "success", NotJson),
     Response(429, "rate limited", NotJson), Response(500, "success", NotJson)}

RpcBodies ==
    {NotJson, Json(TRUE, Absent), Json(TRUE, Str(<<"0", "x", "5">>)),
     Json(FALSE, Absent), Json(FALSE, Null), Json(FALSE, Str(<<"0", "x", "0">>)),
     Json(FALSE, Str(<<"0", "x", "5">>)), Json(FALSE, Str(<<"z", "z">>))}

RpcAnswers ==
    {TransportError} \cup
    {Response(st, "", js) : st \in HttpStatuses, js \in RpcBodies}

RpcMethods == {"eth_getBalance", "eth_gasPrice"}

account_address == "0xAccount"

NoCall ==
    [op |-> "none", args |-> <<>>, steps |-> <<>>, outcome |-> "return",
     value |-> None, token_before |-> None, authed_before |-> FALSE]

\* the operation `op` has run on the arguments args with result r
FinishArgs(op, args, r) ==
    /\ call' = [op |-> op, args |-> args, steps |-> r.steps,
                outcome |-> r.outcome, value |-> r.value,
                token_before |-> token, authed_before |-> authed]
    /\ token' = r.token

\* the operation `op` has run with result r
Finish(op, r) == FinishArgs(op, <<>>, r)

ClientInit ==
    /\ token = None
    /\ authed = FALSE
    /\ call = NoCall

\* the variables of a part of the program that a specification leaves out
WaitIdle ==
    /\ wait_pc = "idle"
    /\ now = 0
    /\ start_time = 0
    /\ timeout_seconds = 0
    /\ check_interval = 0
    /\ balance = -1
    /\ wait_ret = -1
    /\ last_poll = "none"
    /\ last_answer = NoAnswer
    /\ had_error = FALSE

StressIdle ==
    /\ stress_pc = "idle"
    /\ initial_balance = 0
    /\ gas_price = 0
    /\ total_session_keys = 0
    /\ gas_reserve = 0
    /\ amount_per_session_key = 0
    /\ idx = 0
    /\ successful_transfers = 0
    /\ failed_transfers = 0
    /\ total_sent = 0

RateIdle ==
    /\ futures = <<>>
    /\ status_codes = <<>>
    /\ main_pc = "idle"
    /\ counts = [success |-> 0, rate_limited |-> 0, other |-> 0]

ScnIdle ==
    /\ scn_pc = "idle"
    /\ estimated_gas = 0
    /\ transfer_amount = 0
    /\ session_key_balance = 0
    /\ return_gas_price = 0
    /\ return_estimated_gas = 0
    /\ return_amount = 0
    /\ receipt = Null

ExpIdle ==
    /\ total_session_key_balance = 0
    /\ main_balance_after_distribution = 0
    /\ main_balance_after_expiration = 0
    /\ total_session_key_balance_after = 0
    /\ test_passed = TRUE

DelIdle ==
    /\ balance_before_deletion = 0
    /\ deleted = FALSE
    /\ final_balance = 0
    /\ session_key_final_balance = 0

DoJoin ==
    \E answer \in JoinAnswers :
        LET r == Join(token, answer)
        IN  /\ Finish("join", r)
            /\ authed' = IF r.outcome = "return" THEN FALSE ELSE authed
            /\ UNCHANGED <<waitVars, stressVars, rateVars, scnVars,
                   expVars, delVars>>

DoSign ==
    \E accepted \in BOOLEAN :
        /\ Finish("sign", Sign(token, accepted))
        /\ authed' = authed
        /\ UNCHANGED <<waitVars, stressVars, rateVars, scnVars,
                   expVars, delVars>>

DoAuthenticate ==
    \E answer \in AuthAnswers, signature \in {Signature(token), Signature("stale")} :
        LET r == Authenticate(token, signature, answer)
        IN  /\ Finish("authenticate", r)
            /\ authed' = IF r.outcome = "return" THEN (authed \/ r.value) ELSE authed
            /\ UNCHANGED <<waitVars, stressVars, rateVars, scnVars,
                   expVars, delVars>>

DoFullAuthFlow ==
    \E joinAnswer \in JoinAnswers, accepted \in BOOLEAN, authAnswer \in AuthAnswers :
        LET r == FullAuthFlow(token, joinAnswer, accepted, authAnswer)
        IN  /\ Finish("full_auth_flow", r)
            /\ authed' = IF joinAnswer.exc THEN authed
                         ELSE IF r.outcome = "return" THEN r.value ELSE FALSE
            /\ UNCHANGED <<waitVars, stressVars, rateVars, scnVars,
                   expVars, delVars>>

DoRpcCall ==
    \E method \in RpcMethods, answer \in RpcAnswers :
        /\ Finish("_rpc_call", RpcCall(token, method, <<>>, answer))
        /\ authed' = authed
        /\ UNCHANGED <<waitVars, stressVars, rateVars, scnVars,
                   expVars, delVars>>

DoGetBalance ==
    \E answer \in RpcAnswers :
        /\ Finish("get_balance", GetBalance(token, account_address, answer))
        /\ authed' = authed
        /\ UNCHANGED <<waitVars, stressVars, rateVars, scnVars,
                   expVars, delVars>>

ClientNext ==
    \/ DoJoin
    \/ DoSign
    \/ DoAuthenticate
    \/ DoFullAuthFlow
    \/ DoRpcCall
    \/ DoGetBalance

Init == ClientInit /\ WaitIdle /\ StressIdle /\ RateIdle /\ ScnIdle /\ ExpIdle /\ DelIdle

Next == ClientNext

Spec == Init /\ [][Next]_vars

(***************************************************************************)
(* Properties of the client.                                               *)
(***************************************************************************)
\* the HTTP requests that the last operation sent
HttpSteps == {i \in DOMAIN call.steps : call.steps[i].kind = "http"}

RpcOps == {"_rpc_call", "get_balance"}

\* C4: a JSON-RPC request is sent only by a client that has completed the
\* join/sign/authenticate handshake, and an operation that makes an RPC call
\* on a client that has not authenticated raises ValueError without sending.
C4_RpcOnlyAfterHandshake ==
    /\ \A i \in HttpSteps :
           call.steps[i].what = "POST /" => call.authed_before
    /\ (call.op \in RpcOps /\ ~call.authed_before) =>
           /\ call.outcome = "raise"
           /\ call.value = ValueError
           /\ call.steps = <<>>

\* C5: authenticate returns True exactly when the status is no error status
\* (4xx, 5xx) and the body is the literal "success"; with no error status
\* and another body it returns False; with an error status it raises
\* HTTPError.
C5_AuthenticateResult ==
    call.op = "authenticate" /\ ~call.steps[1].answer.exc =>
        LET answer == call.steps[1].answer
            error  == answer.status \in 400..599
        IN  /\ (call.outcome = "return" /\ call.value)
                <=> (~error /\ answer.text = "success")
            /\ (~error /\ answer.text # "success")
                => (call.outcome = "return" /\ ~call.value)
            /\ error => (call.outcome = "raise" /\ call.value = "HTTPError")

C5_Witness ==
    /\ call.op = "authenticate"
    /\ call.steps[1].answer.status = 200
    /\ call.steps[1].answer.text = "Success"
    /\ call.outcome = "return"
    /\ ~call.value

\* C6 as stated: _rpc_call raises HTTPError for every status outside 2xx,
\* raises ValueError for a response with an "error" field, and returns only
\* a response without one.
C6_NonSuccessStatusRaises ==
    call.op = "_rpc_call" /\ call.steps # <<>> /\ ~call.steps[1].answer.exc =>
        LET answer == call.steps[1].answer
        IN  /\ answer.status \notin 200..299
                => (call.outcome = "raise" /\ call.value = "HTTPError")
            /\ (answer.status \in 200..299 /\ answer.json.valid /\ answer.json.error)
                => (call.outcome = "raise" /\ call.value = ValueError)
            /\ call.outcome = "return" => ~answer.json.error

\* C6 amended: _rpc_call never returns a failed response: a 4xx or 5xx
\* status raises HTTPError; with any other status a body that is no JSON
\* raises, a response with an "error" field raises ValueError, and only a
\* response without an "error" field is returned, as it was received.
C6_RpcFailuresRaise ==
    call.op = "_rpc_call" /\ call.steps # <<>> /\ ~call.steps[1].answer.exc =>
        LET answer == call.steps[1].answer
            error  == answer.status \in 400..599
        IN  /\ error => (call.outcome = "raise" /\ call.value = "HTTPError")
            /\ (~error /\ ~answer.json.valid)
                => (call.outcome = "raise" /\ call.value = "JSONDecodeError")
            /\ (~error /\ answer.json.valid /\ answer.json.error)
                => (call.outcome = "raise" /\ call.value = ValueError)
            /\ (~error /\ answer.json.valid /\ ~answer.json.error)
                => (call.outcome = "return" /\ call.value = answer.json)

C6_Witness ==
    /\ call.op = "_rpc_call"
    /\ call.steps # <<>>
    /\ call.steps[1].answer.status = 304
    /\ call.outcome = "return"
    /\ ~call.value.error

\* a request that failed: no response, or a response with an error status
FailedRequest(answer) == answer.exc \/ answer.status \in 400..599

\* C7: one invocation of _rpc_call, join or authenticate sends at most one
\* HTTP request, and a failed request is propagated to the caller as an
\* exception.
C7_NoRetryFailurePropagated ==
    call.op \in {"_rpc_call", "join", "authenticate"} =>
        /\ Cardinality(HttpSteps) <= 1
        /\ \A i \in HttpSteps :
               FailedRequest(call.steps[i].answer) => call.outcome = "raise"

\* C9: full_auth_flow performs join, sign and authenticate in this order, each
\* once (an exception ends it after the failing step); it signs the token
\* that its join obtained and authenticates with that signature, and it
\* returns the boolean that authenticate returned.
C9_FullAuthFlowOrder ==
    call.op = "full_auth_flow" =>
        LET n    == Len(call.steps)
            what == [i \in 1..n |-> call.steps[i].what]
        IN  /\ what = SubSeq(<<"GET /join/", "sign", "POST /authenticate/">>, 1, n)
            /\ n >= 1
            /\ call.outcome = "return" => n = 3
            /\ n >= 2 => /\ ~call.steps[1].answer.exc
                         /\ call.steps[2].token = call.steps[1].answer.text
            /\ n = 3 =>
                   /\ call.steps[3].token = call.steps[1].answer.text
                   /\ call.steps[3].params = <<Signature(call.steps[1].answer.text)>>
            /\ call.outcome = "return" =>
                   call.value = Authenticate(call.steps[3].token,
                                             call.steps[3].params[1],
                                             call.steps[3].answer).value

C9_Witness ==
    /\ call.op = "full_auth_flow"
    /\ call.outcome = "return"
    /\ call.token_before = "a1"
    /\ token = "b2"
    /\ ~call.value

(***************************************************************************)
(* create_session_key and delete_session_key applied once to the gateway's *)
(* answer, on a client that is new (no token) or has authenticated.        *)
(***************************************************************************)
MaxExtra == 2     \* a result of create_session_key has up to 64 + MaxExtra digits
MaxTail  == 2     \* a result of delete_session_key: zeros, then up to MaxTail characters

SlotChars == {"0", "a", "F", "g"}
SlotLens  == {0, 1, 39, 40, 41, 63} \cup (64..(64 + MaxExtra))

SlotBody(c1, c2, c3, n) ==
    Slice(Rep(c1, 24) \o Rep(c2, 16) \o Rep(c3, 24 + MaxExtra), 0, n)

Prefixes == {<<>>, <<"0", "x">>}

SlotStrings ==
    {p \o SlotBody(c1, c2, c3, n) :
        p \in Prefixes, c1 \in SlotChars, c2 \in SlotChars, c3 \in SlotChars,
        n \in SlotLens}

DeleteChars == {"0", "1", "a", "x"}
ZeroPads    == {0, 1, 62, 63}

DeleteTails == UNION {[1..n -> DeleteChars] : n \in 0..MaxTail}

DeleteStrings ==
    {p \o Rep("0", z) \o t : p \in Prefixes, z \in ZeroPads, t \in DeleteTails}

\* what the gateway answers to eth_getStorageAt besides a result string
OtherStorageAnswers ==
    {TransportError} \cup
    {Response(st, "", js) :
        st \in HttpStatuses,
        js \in {NotJson, Json(TRUE, Absent), Json(FALSE, Absent), Json(FALSE, Null)}}

CreateAnswers ==
    OtherStorageAnswers \cup
    {Response(200, "", Json(FALSE, Str(r))) : r \in SlotStrings}

DeleteAnswers ==
    OtherStorageAnswers \cup
    {Response(200, "", Json(FALSE, Str(r))) : r \in DeleteStrings}

SessionKeyAddresses ==
    {<<"0", "x">> \o Rep("a", 40),
     <<"0", "x">> \o Rep("F", 20) \o Rep("1", 20),
     <<"0", "x", "1">>}

SessionKeyInit ==
    /\ token \in {None, "a1"}
    /\ authed = (token # None)
    /\ call = NoCall
    /\ WaitIdle /\ StressIdle /\ RateIdle /\ ScnIdle /\ ExpIdle /\ DelIdle

DoCreateSessionKey ==
    /\ call.op = "none"
    /\ \E answer \in CreateAnswers, hash \in CasePatterns :
           Finish("create_session_key", CreateSessionKey(token, answer, hash))
    /\ UNCHANGED <<authed, waitVars, stressVars, rateVars, scnVars,
                   expVars, delVars>>

DoDeleteSessionKey ==
    /\ call.op = "none"
    /\ \E answer \in DeleteAnswers, hash \in CasePatterns,
          session_key_address \in SessionKeyAddresses :
           FinishArgs("delete_session_key",
                      [session_key_address |-> session_key_address],
                      DeleteSessionKey(token, session_key_address, answer, hash))
    /\ UNCHANGED <<authed, waitVars, stressVars, rateVars, scnVars,
                   expVars, delVars>>

\* what the gateway answers to a request of send_transaction_from_session_key
TxAnswers ==
    {TransportError, Response(200, "", Json(TRUE, Absent)),
     Response(200, "", Json(FALSE, Absent)),
     Response(200, "", Json(FALSE, Str(<<"0", "x", "5">>)))}

to_address == <<"0", "x">> \o Rep("b", 20) \o Rep("2", 20)

DoSendTransactionFromSessionKey ==
    /\ call.op = "none"
    /\ \E answers \in [nonce : TxAnswers, price : TxAnswers,
                        estimate : TxAnswers, send : TxAnswers],
          hashes \in [from : CasePatterns, to : {"none", "all"}],
          session_key_address \in SessionKeyAddresses,
          gas \in {<<>>, <<0>>, <<21000>>},
          price \in {<<>>, <<1>>} :
           FinishArgs("send_transaction_from_session_key",
                      [session_key_address |-> session_key_address,
                       gas |-> gas, gas_price |-> price],
                      SendTransactionFromSessionKey(
                          token, session_key_address, to_address, 0,
                          gas, price, answers, hashes))
    /\ UNCHANGED <<authed, waitVars, stressVars, rateVars, scnVars,
                   expVars, delVars>>

SessionKeyNext ==
    \/ DoCreateSessionKey
    \/ DoDeleteSessionKey
    \/ DoSendTransactionFromSessionKey

SpecSessionKey == SessionKeyInit /\ [][SessionKeyNext]_vars

\* the result string that the gateway gave to the last operation, and that
\* string without its optional '0x' prefix
ResultGiven ==
    /\ call.steps # <<>>
    /\ ~call.steps[1].answer.exc
    /\ call.steps[1].answer.status \notin 400..599
    /\ call.steps[1].answer.json.valid
    /\ ~call.steps[1].answer.json.error
    /\ call.steps[1].answer.json.result.kind = "string"

ResultChars == call.steps[1].answer.json.result.chars

ResultBody ==
    IF Len(ResultChars) >= 2 /\ SubSeq(ResultChars, 1, 2) = <<"0", "x">>
    THEN SubSeq(ResultChars, 3, Len(ResultChars))
    ELSE ResultChars

\* C2: when the result of create_session_key is, after its optional '0x', a
\* 32-byte slot (64 hex digits), the address returned is "0x" and 40 digits
\* whose values are those of the first 40 digits of the slot.
C2_AddressIsFirst20Bytes ==
    (/\ call.op = "create_session_key"
     /\ ResultGiven
     /\ Len(ResultBody) = 64
     /\ IsHex(ResultBody)) =>
        /\ call.outcome = "return"
        /\ Len(call.value) = 42
        /\ SubSeq(call.value, 1, 2) = <<"0", "x">>
        /\ \A i \in 1..40 : HexVal(call.value[i + 2]) = HexVal(ResultBody[i])

\* a slot whose first and last 20 bytes differ
C2_Witness ==
    /\ call.op = "create_session_key"
    /\ ResultGiven
    /\ Len(ResultBody) = 64
    /\ IsHex(ResultBody)
    /\ ResultBody[1] = "a"
    /\ ResultBody[64] = "0"
    /\ call.outcome = "return"

\* the result is zeros followed by the digit 1
ReadsAsOne(body) ==
    /\ Len(body) >= 1
    /\ body[Len(body)] = "1"
    /\ \A i \in 1..(Len(body) - 1) : body[i] = "0"

\* C8 as stated: for every result string delete_session_key returns: True
\* when the result, without '0x' and leading zeros, is the number 1, and
\* False for every other result.
C8_DeleteReturnsForEveryResult ==
    (call.op = "delete_session_key" /\ ResultGiven) =>
        /\ call.outcome = "return"
        /\ call.value <=> ReadsAsOne(ResultBody)

\* C8 amended: for a result made of hex digits after its optional '0x'
\* (the empty result and all zeros included) delete_session_key returns, and
\* it returns True exactly when the digits are zeros followed by 1; for a
\* result holding a character that is no hex digit it raises ValueError.
C8_DeleteTrueIffOne ==
    (call.op = "delete_session_key" /\ ResultGiven) =>
        /\ IsHex(ResultBody) =>
               /\ call.outcome = "return"
               /\ call.value <=> ReadsAsOne(ResultBody)
        /\ ~IsHex(ResultBody) =>
               /\ call.outcome = "raise"
               /\ call.value = ValueError

\* the zero-padded 32-byte 1
C8_Witness ==
    /\ call.op = "delete_session_key"
    /\ ResultGiven
    /\ ResultChars = <<"0", "x">> \o Rep("0", 63) \o <<"1">>
    /\ call.outcome = "return"
    /\ call.value

\* a lower-cased copy of an address
Lower(a) == [i \in DOMAIN a |-> LowerChar(a[i])]

\* C11: create_session_key and delete_session_key send nothing but
\* eth_getStorageAt: create with the parameters [0x...0003, the 32-byte zero
\* position, "latest"], delete with [0x...0004, the JSON string that holds
\* the checksummed sessionKeyAddress, "latest"], and each sends at most one
\* request.
C11_SessionKeysThroughGetStorageAt ==
    /\ call.op = "create_session_key" =>
           /\ Len(call.steps) <= 1
           /\ \A i \in DOMAIN call.steps :
                  /\ call.steps[i].kind = "http"
                  /\ call.steps[i].method = "eth_getStorageAt"
                  /\ call.steps[i].params =
                         <<"0x0000000000000000000000000000000000000003",
                           "0x0000000000000000000000000000000000000000000000000000000000000000",
                           "latest">>
    /\ call.op = "delete_session_key" =>
           /\ Len(call.steps) <= 1
           /\ \A i \in DOMAIN call.steps :
                  LET params == call.steps[i].params
                      sent == params[2].json_string_of.sessionKeyAddress
                  IN  /\ call.steps[i].kind = "http"
                      /\ call.steps[i].method = "eth_getStorageAt"
                      /\ Len(params) = 3
                      /\ params[1] = "0x0000000000000000000000000000000000000004"
                      /\ params[3] = "latest"
                      /\ DOMAIN params[2] = {"json_string_of"}
                      /\ DOMAIN params[2].json_string_of = {"sessionKeyAddress"}
                      /\ Lower(sent) = Lower(call.args.session_key_address)
                      /\ \E hash \in CasePatterns :
                             sent = ToChecksumAddress(sent, hash)

\* delete_session_key has sent its request for an address given in upper
\* case, and the gateway has confirmed the deletion
C11_Witness ==
    /\ call.op = "delete_session_key"
    /\ Len(call.steps) = 1
    /\ call.args.session_key_address[3] = "F"
    /\ call.steps[1].params[2].json_string_of.sessionKeyAddress[3] = "f"
    /\ call.outcome = "return"
    /\ call.value = TRUE

\* C12: send_transaction_from_session_key asks for the session key's nonce
\* first, asks for the gas price only when gas_price is None, estimates the
\* gas only when gas is None, and only after these sends one
\* eth_sendTransaction whose "from" is the session key; a request that fails
\* ends the operation, so the requests sent are a prefix of that list.
TxMethods == [i \in DOMAIN call.steps |-> call.steps[i].method]

TxExpected ==
    <<"eth_getTransactionCount">>
    \o (IF call.args.gas_price = <<>> THEN <<"eth_gasPrice">> ELSE <<>>)
    \o (IF call.args.gas = <<>> THEN <<"eth_estimateGas">> ELSE <<>>)
    \o <<"eth_sendTransaction">>

C12_SessionKeyTransactionOrder ==
    call.op = "send_transaction_from_session_key" =>
        /\ Len(TxMethods) <= Len(TxExpected)
        /\ TxMethods = SubSeq(TxExpected, 1, Len(TxMethods))
        /\ call.outcome = "return" => TxMethods = TxExpected
        /\ call.steps # <<>> =>
               Lower(call.steps[1].params[1]) = Lower(call.args.session_key_address)
        /\ \A i \in DOMAIN call.steps :
               /\ call.steps[i].kind = "http"
               /\ call.steps[i].method = "eth_sendTransaction" =>
                      /\ i = Len(TxExpected)
                      /\ Lower(call.steps[i].params[1].from)
                             = Lower(call.args.session_key_address)
               /\ (call.args.gas # <<>> /\ call.args.gas_price # <<>>) =>
                      call.steps[i].method \notin {"eth_gasPrice", "eth_estimateGas"}

\* gas and gas_price were supplied: the nonce query and the transaction are
\* the only requests, and the transaction hash is returned
C12_Witness ==
    /\ call.op = "send_transaction_from_session_key"
    /\ call.args.gas = <<21000>>
    /\ call.args.gas_price = <<1>>
    /\ call.outcome = "return"
    /\ Len(call.steps) = 2
    /\ call.steps[2].params[1].gas = <<"0", "x", "5", "2", "0", "8">>

(***************************************************************************)
(* wait_for_funds(client, address, timeout_seconds, check_interval): the   *)
(* polling loop of the scenarios.  Time is counted in seconds; a call of   *)
(* get_balance that the gateway answers takes 0..MaxCallTime seconds, and  *)
(* time.sleep(check_interval) takes check_interval seconds.                *)
(***************************************************************************)
\* time.time() after time.sleep(interval) that began at t, without the sleep
TimeWithoutSleep(t, interval) == t

\* time.time() after time.sleep(interval) that began at t
TimeAfterSleep(t, interval) == t + interval

\* the loop condition: time.time() - start_time < timeout_seconds
WithinTimeout == now - start_time < timeout_seconds

WaitInit ==
    /\ wait_pc = "loop"
    /\ now = 0
    /\ start_time = 0
    /\ timeout_seconds \in 0..MaxTimeout
    /\ check_interval \in 1..MaxInterval
    /\ balance = -1
    /\ wait_ret = -1
    /\ last_poll = "none"
    /\ last_answer = NoAnswer
    /\ had_error = FALSE
    /\ token \in {None, "a1"}
    /\ authed = (token # None)
    /\ call = NoCall
    /\ StressIdle /\ RateIdle /\ ScnIdle /\ ExpIdle /\ DelIdle

\* `if balance > 0` accepting a balance of 0 as well
FundsArrivedOrZero(b) == b >= 0

\* `if balance > 0`, the test that guards `return balance`
FundsArrived(b) == b > 0

\* an exception of the balance query that leaves wait_for_funds
ExceptionPropagates == "propagated"

\* `except Exception as e`: the exception is logged, the pass goes on to
\* time.sleep(check_interval)
ExceptionCaught == "sleep"

\* one pass of the try block: balance = client.get_balance(address), and
\* `return balance` when it is positive
WaitPoll ==
    /\ wait_pc = "loop"
    /\ WithinTimeout
    /\ \E answer \in RpcAnswers, took \in 0..MaxCallTime :
           LET r == GetBalance(token, account_address, answer)
           IN  /\ now' = now + took
               /\ last_answer' = answer
               /\ IF r.outcome = "raise"
                  THEN /\ last_poll' = "error"
                       /\ had_error' = TRUE
                       /\ wait_pc' = ExceptionCaught
                       /\ UNCHANGED <<balance, wait_ret>>
                  ELSE /\ last_poll' = "balance"
                       /\ UNCHANGED had_error
                       /\ balance' = r.value
                       /\ IF FundsArrived(r.value)
                          THEN wait_pc' = "returned" /\ wait_ret' = r.value
                          ELSE wait_pc' = "sleep" /\ UNCHANGED wait_ret
    /\ UNCHANGED <<start_time, timeout_seconds, check_interval,
                   clientVars, stressVars, rateVars, scnVars,
                   expVars, delVars>>

\* time.sleep(check_interval), back to the loop condition
WaitSleep ==
    /\ wait_pc = "sleep"
    /\ now' = TimeAfterSleep(now, check_interval)
    /\ wait_pc' = "loop"
    /\ UNCHANGED <<start_time, timeout_seconds, check_interval, balance,
                   wait_ret, last_poll, last_answer, had_error, clientVars, stressVars, rateVars, scnVars,
                   expVars, delVars>>

\* the loop condition fails: raise TimeoutError
WaitTimeout ==
    /\ wait_pc = "loop"
    /\ ~WithinTimeout
    /\ wait_pc' = "raised"
    /\ UNCHANGED <<now, start_time, timeout_seconds, check_interval, balance,
                   wait_ret, last_poll, last_answer, had_error, clientVars, stressVars, rateVars, scnVars,
                   expVars, delVars>>

WaitNext ==
    \/ WaitPoll
    \/ WaitSleep
    \/ WaitTimeout

SpecWait == WaitInit /\ [][WaitNext]_vars

\* the interpreter keeps running the loop: a step that is possible is taken
SpecWaitFair == SpecWait /\ WF_vars(WaitNext)

WaitDone == wait_pc \in {"returned", "raised"}

\* C1: wait_for_funds terminates whatever the gateway answers: it returns a
\* balance or raises TimeoutError, and it raises only when the time elapsed
\* since its start has reached timeout_seconds.
C1_WaitTerminates ==
    /\ <>WaitDone
    /\ [](wait_pc = "raised" => now - start_time >= timeout_seconds)

\* the timeout is reached after polls that failed
C1_Witness ==
    /\ wait_pc = "raised"
    /\ last_poll = "error"
    /\ timeout_seconds = MaxTimeout
    /\ token = "a1"

\* C13: wait_for_funds returns only a strictly positive balance, the value
\* that the last get_balance call read from the gateway's answer; it never
\* returns 0, and while every read has yielded 0 or has failed it has not
\* returned.
C13_ReturnsPositiveLastRead ==
    /\ wait_pc = "returned" =>
           /\ wait_ret > 0
           /\ wait_ret = balance
           /\ last_poll = "balance"
           /\ token # None
           /\ ~last_answer.exc
           /\ last_answer.status \notin 400..599
           /\ last_answer.json.valid
           /\ ~last_answer.json.error
           /\ last_answer.json.result.kind = "string"
           /\ HexNum(Strip0x(last_answer.json.result.chars)) = wait_ret
    /\ wait_pc # "returned" => wait_ret = -1
    /\ balance <= 0 => wait_pc # "returned"

\* a balance of 5 wei is returned by a wait in which no query failed and
\* time has passed
C13_Witness ==
    /\ wait_pc = "returned"
    /\ wait_ret = 5
    /\ ~had_error
    /\ now > start_time

\* C16: in wait_for_funds an exception of the balance query does not end the
\* wait: the pass goes on to the sleep and then to the next check, and after
\* a failed query the wait ends only by a later positive read or by the
\* timeout.
C16_ExceptionDoesNotEndWait ==
    /\ [](had_error =>
            /\ wait_pc \in {"sleep", "loop", "returned", "raised"}
            /\ wait_pc = "returned" => (last_poll = "balance" /\ wait_ret > 0)
            /\ wait_pc = "raised" => now - start_time >= timeout_seconds
            /\ last_poll = "error" => wait_pc # "returned")
    /\ [][(wait_pc = "loop" /\ last_poll' = "error" /\ wait_pc' # "loop"
             /\ wait_pc' # "raised")
          => (wait_pc' = "sleep" /\ had_error')]_vars
    /\ [][(wait_pc = "sleep" /\ last_poll = "error") => wait_pc' = "loop"]_vars

\* a query failed with an HTTP error, and a later query read the funds
C16_Witness ==
    /\ had_error
    /\ wait_pc = "returned"
    /\ last_poll = "balance"
    /\ last_answer.status = 200
    /\ timeout_seconds = MaxTimeout

(***************************************************************************)
(* The zero value transaction scenario: wait_for_tx_receipt and the check  *)
(* of the receipt's status in main() (step 6).  A receipt is a JSON object *)
(* with an optional "status" and an optional "gasUsed"; the polling loop   *)
(* has the locals of wait_for_funds, so it uses the same variables.  An    *)
(* exception that main() does not catch ends the script ("raised").        *)
(***************************************************************************)
\* a JSON number
Num(s) == [kind |-> "number", chars |-> s]

\* "result": {"status": ..., "gasUsed": ...}
Receipt(status, gasUsed) ==
    [kind |-> "object", chars |-> <<>>, status |-> status, gasUsed |-> gasUsed]

zero_tx_hash == "0xZeroTxHash"

StatusValues ==
    {Absent, Null, Num(<<"1">>), Str(<<"0", "x", "1">>), Str(<<"0", "x", "0">>),
     Str(<<"0", "x", "0", "1">>), Str(<<"1">>), Str(<<"0", "x", "2">>),
     Str(<<"0", "x">>)}

GasUsedValues == {Absent, Str(<<"0", "x", "5", "2", "0", "8">>), Null}

ReceiptAnswers ==
    {TransportError, Response(500, "", NotJson), Response(200, "", NotJson),
     Response(200, "", Json(TRUE, Absent)), Response(200, "", Json(FALSE, Absent)),
     Response(200, "", Json(FALSE, Null)),
     Response(200, "", Json(FALSE, Str(<<"0", "x", "1">>)))}
    \cup {Response(200, "", Json(FALSE, Receipt(st, gu))) :
             st \in StatusValues, gu \in GasUsedValues}

\* `"result" in result and result["result"] is not None`
HasReceipt(result) == result.result.kind \notin {"absent", "null"}

\* an exception of the try block that leaves wait_for_tx_receipt
ReceiptExceptionPropagates == "propagated"

\* `except Exception as e` of wait_for_tx_receipt: logged, then the sleep
ReceiptExceptionCaught == "sleep"

ReceiptInit ==
    /\ wait_pc = "loop"
    /\ now = 0
    /\ start_time = 0
    /\ timeout_seconds \in 0..MaxTimeout
    /\ check_interval \in 1..MaxInterval
    /\ balance = -1
    /\ wait_ret = -1
    /\ last_poll = "none"
    /\ last_answer = NoAnswer
    /\ had_error = FALSE
    /\ token \in {None, "a1"}
    /\ authed = (token # None)
    /\ call = NoCall
    /\ scn_pc = "wait_receipt"
    /\ estimated_gas = 0
    /\ transfer_amount = 0
    /\ session_key_balance = 0
    /\ return_gas_price = 0
    /\ return_estimated_gas = 0
    /\ return_amount = 0
    /\ receipt = Null
    /\ StressIdle /\ RateIdle /\ ExpIdle /\ DelIdle

\* one pass of the try block: the receipt is returned when the result is
\* there and is not None; receipt.get("blockNumber") raises AttributeError
\* for a result that is no JSON object, inside the try block
ReceiptPoll ==
    /\ wait_pc = "loop"
    /\ WithinTimeout
    /\ \E answer \in ReceiptAnswers, took \in 0..MaxCallTime :
           LET r == RpcCall(token, "eth_getTransactionReceipt",
                            <<zero_tx_hash>>, answer)
           IN  /\ now' = now + took
               /\ last_answer' = answer
               /\ IF r.outcome = "raise"
                  THEN /\ last_poll' = "error"
                       /\ had_error' = TRUE
                       /\ wait_pc' = ReceiptExceptionCaught
                       /\ UNCHANGED receipt
                  ELSE IF ~HasReceipt(r.value)
                  THEN /\ last_poll' = "null"
                       /\ wait_pc' = "sleep"
                       /\ UNCHANGED <<had_error, receipt>>
                  ELSE IF r.value.result.kind # "object"
                  THEN /\ last_poll' = "error"
                       /\ had_error' = TRUE
                       /\ wait_pc' = ReceiptExceptionCaught
                       /\ UNCHANGED receipt
                  ELSE /\ last_poll' = "receipt"
                       /\ receipt' = r.value.result
                       /\ wait_pc' = "returned"
                       /\ UNCHANGED had_error
    /\ UNCHANGED <<start_time, timeout_seconds, check_interval, balance,
                   wait_ret, clientVars, stressVars, rateVars, scn_pc,
                   estimated_gas, transfer_amount, session_key_balance,
                   return_gas_price, return_estimated_gas, return_amount,
                   expVars, delVars>>

\* time.sleep(check_interval), back to the loop condition
ReceiptSleep ==
    /\ wait_pc = "sleep"
    /\ now' = TimeAfterSleep(now, check_interval)
    /\ wait_pc' = "loop"
    /\ UNCHANGED <<start_time, timeout_seconds, check_interval, balance,
                   wait_ret, last_poll, last_answer, had_error, clientVars,
                   stressVars, rateVars, scnVars,
                   expVars, delVars>>

\* the loop condition fails: raise TimeoutError, which main() does not catch
ReceiptTimeout ==
    /\ wait_pc = "loop"
    /\ ~WithinTimeout
    /\ wait_pc' = "raised"
    /\ scn_pc' = "raised"
    /\ UNCHANGED <<now, start_time, timeout_seconds, check_interval, balance,
                   wait_ret, last_poll, last_answer, had_error, clientVars,
                   stressVars, rateVars, estimated_gas, transfer_amount,
                   session_key_balance, return_gas_price, return_estimated_gas,
                   return_amount, receipt,
                   expVars, delVars>>

\* int(r.get(key, "0x0"), 16) with "0x1" as the default
HexFieldDefaultOne(field) ==
    LET s == IF field.kind = "absent" THEN Str(<<"0", "x", "1">>) ELSE field
    IN  IF s.kind # "string" THEN [outcome |-> "raise", value |-> 0]
        ELSE IF ~PyIntHexOk(s.chars) THEN [outcome |-> "raise", value |-> 0]
        ELSE [outcome |-> "return", value |-> PyIntHex(s.chars)]

\* int(r.get(key, "0x0"), 16) for the member `field` of a receipt: TypeError
\* for a member that is no string, ValueError for a string that is no number
HexField(field) ==
    LET s == IF field.kind = "absent" THEN Str(<<"0", "x", "0">>) ELSE field
    IN  IF s.kind # "string" THEN [outcome |-> "raise", value |-> 0]
        ELSE IF ~PyIntHexOk(s.chars) THEN [outcome |-> "raise", value |-> 0]
        ELSE [outcome |-> "return", value |-> PyIntHex(s.chars)]

\* step 6 after wait_for_tx_receipt has returned: the status is decoded;
\* status 1 is reported as included and successful, anything else raises
ZeroCheckStatus ==
    /\ scn_pc = "wait_receipt"
    /\ wait_pc = "returned"
    /\ LET status == HexField(receipt.status)
       IN  IF status.outcome = "return" /\ status.value = 1
           THEN scn_pc' = "successful"
           ELSE scn_pc' = "raised"
    /\ UNCHANGED <<waitVars, clientVars, stressVars, rateVars, estimated_gas,
                   transfer_amount, session_key_balance, return_gas_price,
                   return_estimated_gas, return_amount, receipt,
                   expVars, delVars>>

\* the log of the gas used, which decodes receipt["gasUsed"]; then step 7
ZeroLogGasUsed ==
    /\ scn_pc = "successful"
    /\ scn_pc' = IF HexField(receipt.gasUsed).outcome = "return"
                 THEN "cleanup" ELSE "raised_after_report"
    /\ UNCHANGED <<waitVars, clientVars, stressVars, rateVars, estimated_gas,
                   transfer_amount, session_key_balance, return_gas_price,
                   return_estimated_gas, return_amount, receipt,
                   expVars, delVars>>

ReceiptNext ==
    \/ ReceiptPoll
    \/ ReceiptSleep
    \/ ReceiptTimeout
    \/ ZeroCheckStatus
    \/ ZeroLogGasUsed

SpecReceipt == ReceiptInit /\ [][ReceiptNext]_vars

\* the interpreter keeps running the loop: a step that is possible is taken
SpecReceiptFair == SpecReceipt /\ WF_vars(ReceiptNext)

\* C14: wait_for_tx_receipt terminates: it returns a receipt that is not
\* null, taken from the answer to its last eth_getTransactionReceipt request,
\* or it raises TimeoutError once timeout_seconds have elapsed; a null result
\* or a failed request leads to the sleep and the next poll.
C14_ReceiptWaitTerminates ==
    /\ <>(wait_pc \in {"returned", "raised"})
    /\ [](wait_pc \in {"loop", "sleep", "returned", "raised"})
    /\ [](wait_pc = "returned" =>
            /\ last_poll = "receipt"
            /\ token # None
            /\ ~last_answer.exc
            /\ last_answer.json.valid
            /\ ~last_answer.json.error
            /\ last_answer.json.result.kind \notin {"absent", "null"}
            /\ receipt = last_answer.json.result)
    /\ [](wait_pc # "returned" => receipt = Null)
    /\ [](wait_pc = "raised" => now - start_time >= timeout_seconds)
    /\ [][(wait_pc = "loop" /\ last_poll' \in {"null", "error"}
             /\ wait_pc' \notin {"loop", "raised"}) => wait_pc' = "sleep"]_vars

\* the wait timed out after a poll that found no receipt yet
C14_Witness ==
    /\ wait_pc = "raised"
    /\ last_poll = "null"
    /\ had_error
    /\ timeout_seconds = MaxTimeout

\* the status of a receipt reads as the number 1
StatusIsOne(r) ==
    /\ r.kind = "object"
    /\ r.status.kind = "string"
    /\ Strip0x(r.status.chars) # <<>>
    /\ IsHex(Strip0x(r.status.chars))
    /\ HexNum(Strip0x(r.status.chars)) = 1

\* C15: the zero value transaction scenario reports the transaction as
\* included and successful only when the receipt's status is 1; with any
\* other status, or with no status, it raises instead of going on.
C15_SuccessOnlyWithStatusOne ==
    /\ scn_pc \in {"successful", "cleanup", "raised_after_report"} =>
           (wait_pc = "returned" /\ StatusIsOne(receipt))
    /\ (wait_pc = "returned" /\ ~StatusIsOne(receipt)) =>
           scn_pc \in {"wait_receipt", "raised"}
    /\ wait_pc = "raised" => scn_pc = "raised"

\* a receipt with status "0x01" has been reported as successful
C15_Witness ==
    /\ scn_pc = "cleanup"
    /\ receipt.status.chars = <<"0", "x", "0", "1">>
    /\ had_error

(***************************************************************************)
(* The fund expiration stress scenario, main(): funding of the main        *)
(* account, creation of the users and their session keys, and the          *)
(* distribution of the funds (steps 1 to 3).  An exception that main()     *)
(* does not catch ends the script ("aborted").                             *)
(***************************************************************************)
NUM_USERS == 5
SESSION_KEYS_PER_USER == 3
estimated_gas_per_transfer == 21000

MaxGasPrice == 2     \* eth_gasPrice answers 0..MaxGasPrice wei
MaxSurplus  == 16    \* the balance is up to MaxSurplus wei above a gas reserve

\* gas_reserve: twice the estimated gas cost of all the transfers
GasReserve(price, keys) == (estimated_gas_per_transfer * price * keys) * 2

\* amount_per_session_key rounded up instead of down
AmountRoundedUp(available, keys) == (available + keys - 1) \div keys

\* amount_per_session_key = available_for_distribution // total_session_keys
AmountPerSessionKey(available, keys) == available \div keys

\* the balances that wait_for_funds returns: positive, around the reserves
BalanceChoices ==
    {b \in {GasReserve(g, NUM_USERS * SESSION_KEYS_PER_USER) + d :
                g \in 0..MaxGasPrice, d \in (-1)..MaxSurplus} : b > 0}

StressInit ==
    /\ stress_pc = "start"
    /\ initial_balance = 0
    /\ gas_price = 0
    /\ total_session_keys = 0
    /\ gas_reserve = 0
    /\ amount_per_session_key = 0
    /\ idx = 0
    /\ successful_transfers = 0
    /\ failed_transfers = 0
    /\ total_sent = 0
    /\ ClientInit /\ WaitIdle /\ RateIdle /\ ScnIdle /\ ExpIdle /\ DelIdle

\* step 1: main_client.full_auth_flow(), then wait_for_funds, which returns
\* a positive balance or raises
StressFund ==
    /\ stress_pc = "start"
    /\ \/ /\ stress_pc' = "aborted"
          /\ UNCHANGED initial_balance
       \/ /\ \E b \in BalanceChoices : initial_balance' = b
          /\ stress_pc' = "create_users"
    /\ UNCHANGED <<gas_price, total_session_keys, gas_reserve,
                   amount_per_session_key, idx, successful_transfers,
                   failed_transfers, total_sent, waitVars, clientVars, rateVars, scnVars,
                   expVars, delVars>>

\* step 2, one pass of the loop over the users: full_auth_flow and
\* SESSION_KEYS_PER_USER calls of create_session_key, none of them caught
StressCreateUser ==
    /\ stress_pc = "create_users"
    /\ total_session_keys < NUM_USERS * SESSION_KEYS_PER_USER
    /\ \/ /\ stress_pc' = "aborted"
          /\ UNCHANGED total_session_keys
       \/ /\ total_session_keys' = total_session_keys + SESSION_KEYS_PER_USER
          /\ UNCHANGED stress_pc
    /\ UNCHANGED <<initial_balance, gas_price, gas_reserve,
                   amount_per_session_key, idx, successful_transfers,
                   failed_transfers, total_sent, waitVars, clientVars, rateVars, scnVars,
                   expVars, delVars>>

\* `if available_for_distribution <= 0` letting an amount of 0 pass
NothingToDistributeStrict(available) == available < 0

\* `if available_for_distribution <= 0`, the test that guards sys.exit(1)
NothingToDistribute(available) == available <= 0

\* step 3 up to the loop: get_gas_price, the gas reserve, sys.exit(1) when
\* nothing is left to distribute, amount_per_session_key
StressPlan ==
    /\ stress_pc = "create_users"
    /\ total_session_keys = NUM_USERS * SESSION_KEYS_PER_USER
    /\ \/ /\ stress_pc' = "aborted"
          /\ UNCHANGED <<gas_price, gas_reserve, amount_per_session_key>>
       \/ \E price \in 0..MaxGasPrice :
              LET reserve   == GasReserve(price, total_session_keys)
                  available == initial_balance - reserve
              IN  /\ gas_price' = price
                  /\ gas_reserve' = reserve
                  /\ IF NothingToDistribute(available)
                     THEN /\ stress_pc' = "exit_1"
                          /\ UNCHANGED amount_per_session_key
                     ELSE /\ stress_pc' = "transfer"
                          /\ amount_per_session_key' =
                                 AmountPerSessionKey(available, total_session_keys)
    /\ UNCHANGED <<initial_balance, total_session_keys, idx,
                   successful_transfers, failed_transfers, total_sent,
                   waitVars, clientVars, rateVars, scnVars,
                   expVars, delVars>>

\* an exception of a transfer that leaves the loop and main()
TransferFailureEndsLoop == "aborted"

\* `except Exception as e` in the distribution loop: the failure is counted
\* and logged, and the loop goes on with the next session key
TransferFailureCaught == "transfer"

\* one pass of the distribution loop: estimate_gas and send_transaction of
\* amount_per_session_key, any exception counted as a failed transfer
StressTransfer ==
    /\ stress_pc = "transfer"
    /\ idx < total_session_keys
    /\ \E sent \in BOOLEAN :
           IF sent
           THEN /\ successful_transfers' = successful_transfers + 1
                /\ total_sent' = total_sent + amount_per_session_key
                /\ UNCHANGED <<stress_pc, failed_transfers>>
           ELSE /\ failed_transfers' = failed_transfers + 1
                /\ stress_pc' = TransferFailureCaught
                /\ UNCHANGED <<successful_transfers, total_sent>>
    /\ idx' = idx + 1
    /\ UNCHANGED <<initial_balance, gas_price, total_session_keys,
                   gas_reserve, amount_per_session_key,
                   waitVars, clientVars, rateVars, scnVars,
                   expVars, delVars>>

\* the distribution loop ends
StressDistributed ==
    /\ stress_pc = "transfer"
    /\ idx = total_session_keys
    /\ stress_pc' = "distributed"
    /\ UNCHANGED <<initial_balance, gas_price, total_session_keys, gas_reserve,
                   amount_per_session_key, idx, successful_transfers,
                   failed_transfers, total_sent, waitVars, clientVars, rateVars, scnVars,
                   expVars, delVars>>

StressNext ==
    \/ StressFund
    \/ StressCreateUser
    \/ StressPlan
    \/ StressTransfer
    \/ StressDistributed

SpecStress == StressInit /\ [][StressNext]_vars

\* C3: once the distribution loop is reached, the amounts for the session
\* keys, and the amounts sent, sum to no more than the budget
\* initial_balance - 2 * 21000 * gas_price * total_session_keys.
C3_DistributionWithinBudget ==
    stress_pc \in {"transfer", "distributed"} =>
        LET budget == initial_balance - 2 * 21000 * gas_price * total_session_keys
        IN  /\ amount_per_session_key * total_session_keys <= budget
            /\ total_sent <= budget
            /\ total_sent = successful_transfers * amount_per_session_key

\* every transfer sent, with a budget that the keys do not divide
C3_Witness ==
    /\ stress_pc = "distributed"
    /\ successful_transfers = total_session_keys
    /\ gas_price > 0
    /\ amount_per_session_key > 0
    /\ total_sent < initial_balance - 2 * 21000 * gas_price * total_session_keys

\* C19: when initial_balance - gas_reserve <= 0 the stress scenario exits
\* with status 1 before any transfer to a session key; the distribution
\* loop is reached only with a strictly positive amount to distribute.
C19_ExitBeforeAnyTransfer ==
    /\ stress_pc = "exit_1" =>
           /\ gas_reserve = 2 * 21000 * gas_price * total_session_keys
           /\ initial_balance - gas_reserve <= 0
           /\ idx = 0
           /\ successful_transfers = 0
           /\ failed_transfers = 0
           /\ total_sent = 0
    /\ (stress_pc \in {"transfer", "distributed"} \/ idx > 0) =>
           /\ gas_reserve = 2 * 21000 * gas_price * total_session_keys
           /\ initial_balance - gas_reserve > 0

\* the balance equals the gas reserve exactly: nothing to distribute
C19_Witness ==
    /\ stress_pc = "exit_1"
    /\ gas_price = 1
    /\ initial_balance = gas_reserve

\* C20: in the distribution loop a failed transfer is counted and does not
\* stop the loop: each pass makes the one attempt of the next session key,
\* and after the loop successful_transfers + failed_transfers =
\* total_session_keys = NUM_USERS * SESSION_KEYS_PER_USER.
C20_EveryKeyOneAttempt ==
    /\ [](stress_pc \in {"transfer", "distributed"} =>
            /\ successful_transfers + failed_transfers = idx
            /\ idx <= total_session_keys)
    /\ [](stress_pc = "distributed" =>
            /\ idx = total_session_keys
            /\ successful_transfers + failed_transfers = total_session_keys
            /\ total_session_keys = NUM_USERS * SESSION_KEYS_PER_USER)
    /\ [](failed_transfers > 0 => stress_pc \in {"transfer", "distributed"})
    /\ [](stress_pc = "aborted" => idx = 0)
    /\ [][idx' # idx =>
            /\ idx' = idx + 1
            /\ successful_transfers' + failed_transfers'
                   = successful_transfers + failed_transfers + 1
            /\ stress_pc' = "transfer"]_vars

\* the loop has ended after transfers that failed and transfers that went
\* through
C20_Witness ==
    /\ stress_pc = "distributed"
    /\ failed_transfers = 2
    /\ successful_transfers = NUM_USERS * SESSION_KEYS_PER_USER - 2

(***************************************************************************)
(* The fund expiration stress scenario, main(), steps 4 to 7 and the final *)
(* summary, from the state in which the distribution loop has ended.       *)
(* Balances are what get_balance reports, in wei; the reads of the session *)
(* keys' balances are summed (a read that fails is logged and skipped).    *)
(***************************************************************************)
\* the sum of the session keys' balances after the distribution
KeyTotals == {0, 50, 199, 200}

\* the main account's balance after the distribution
MainBalances == {0, 100}

\* the main account's balance after the expiration wait
ExpiredBalances == {0, 100, 260}

\* the sum of the session keys' balances after the expiration wait
AfterTotals == {0, 1, 6, 10, 11}

\* tolerance: a hundredth of the total, rounded down
Tolerance(total) == IF total > 0 THEN total \div 100 ELSE 0

\* test_passed after step 6: the main balance has increased, and the funds
\* left on the session keys are within the tolerance or within five times
\* the tolerance
TestPassed(balance_increase, total, total_after) ==
    /\ balance_increase > 0
    /\ ~(total_after > Tolerance(total) /\ total_after > Tolerance(total) * 5)

ExpirationInit ==
    /\ stress_pc = "distributed"
    /\ gas_price \in 0..MaxGasPrice
    /\ total_session_keys = NUM_USERS * SESSION_KEYS_PER_USER
    /\ gas_reserve = GasReserve(gas_price, total_session_keys)
    /\ initial_balance = gas_reserve + MaxSurplus
    /\ amount_per_session_key = AmountPerSessionKey(MaxSurplus, total_session_keys)
    /\ idx = total_session_keys
    /\ successful_transfers \in {0, total_session_keys}
    /\ failed_transfers = total_session_keys - successful_transfers
    /\ total_sent = successful_transfers * amount_per_session_key
    /\ ExpIdle
    /\ ClientInit /\ WaitIdle /\ RateIdle /\ ScnIdle /\ DelIdle

\* step 4: the balances of the session keys are read and summed, then the
\* main account's balance is read (an exception there is not caught)
StressVerifyKeys ==
    /\ stress_pc = "distributed"
    /\ \E total \in KeyTotals :
           /\ total_session_key_balance' = total
           /\ \/ /\ stress_pc' = "aborted"
                 /\ UNCHANGED main_balance_after_distribution
              \/ /\ \E b \in MainBalances : main_balance_after_distribution' = b
                 /\ stress_pc' = "wait_expiration"
    /\ UNCHANGED <<initial_balance, gas_price, total_session_keys, gas_reserve,
                   amount_per_session_key, idx, successful_transfers,
                   failed_transfers, total_sent, main_balance_after_expiration,
                   total_session_key_balance_after, test_passed,
                   waitVars, clientVars, rateVars, scnVars, delVars>>

\* steps 5 and 6: after the expiration wait the main balance is read (not
\* caught), the session keys' balances are summed again, and test_passed
\* is decided
StressVerifyExpiration ==
    /\ stress_pc = "wait_expiration"
    /\ \/ /\ stress_pc' = "aborted"
          /\ UNCHANGED <<main_balance_after_expiration,
                         total_session_key_balance_after, test_passed>>
       \/ \E b \in ExpiredBalances, after \in AfterTotals :
              /\ main_balance_after_expiration' = b
              /\ total_session_key_balance_after' = after
              /\ test_passed' = TestPassed(b - main_balance_after_distribution,
                                           total_session_key_balance, after)
              /\ stress_pc' = "return_funds"
    /\ UNCHANGED <<initial_balance, gas_price, total_session_keys, gas_reserve,
                   amount_per_session_key, idx, successful_transfers,
                   failed_transfers, total_sent, total_session_key_balance,
                   main_balance_after_distribution,
                   waitVars, clientVars, rateVars, scnVars, delVars>>

\* step 7 and the final summary: the remaining funds are sent to the return
\* address (get_balance, get_gas_price and estimate_gas are not caught),
\* then the script ends normally or with sys.exit(1)
StressReturnFunds ==
    /\ stress_pc = "return_funds"
    /\ \/ stress_pc' = "aborted"
       \/ stress_pc' = IF test_passed THEN "passed" ELSE "failed_exit_1"
    /\ UNCHANGED <<initial_balance, gas_price, total_session_keys, gas_reserve,
                   amount_per_session_key, idx, successful_transfers,
                   failed_transfers, total_sent, expVars,
                   waitVars, clientVars, rateVars, scnVars, delVars>>

ExpirationNext ==
    \/ StressVerifyKeys
    \/ StressVerifyExpiration
    \/ StressReturnFunds

SpecExpiration == ExpirationInit /\ [][ExpirationNext]_vars

\* C21: the verdict of the stress scenario is FAILED (exit status 1) exactly
\* when the main balance did not increase between distribution and
\* expiration, or more than 5% of the total that was on the session keys
\* remains on them; a remainder of at most 5% of the total, and an increase
\* below the 80% target, never fail the test.
C21_FailedExactlyWhen ==
    stress_pc \in {"passed", "failed_exit_1"} =>
        (stress_pc = "failed_exit_1"
            <=> \/ main_balance_after_expiration
                       - main_balance_after_distribution <= 0
                \/ total_session_key_balance_after * 100
                       > 5 * total_session_key_balance)

(***************************************************************************)
(* The session key transaction scenario, main(), steps 2 to 5: the funds   *)
(* of the main account go to a session key and back.  The same transfer    *)
(* arithmetic is in the return-funds-on-delete and the zero value          *)
(* scenarios.  initial_balance and gas_price are main()'s locals of these  *)
(* names.  Amounts are in wei; an exception that main() does not catch     *)
(* ends the script ("raised").                                             *)
(***************************************************************************)
MaxUnits == 5    \* balances are 1..MaxUnits times 1, 1000 or 21000 wei

\* what wait_for_funds can return: a positive balance
Balances == {m * u : m \in 1..MaxUnits, u \in {1, 1000, 21000}}

\* what estimate_gas can return
GasChoices == {0, 1, 21000}

\* transfer_amount without the test that the gas is covered
TransferAmountUnchecked(balance_wei, gas_cost) == (balance_wei * 95) \div 100

\* transfer_amount: 95% of the balance, or what the gas cost and a buffer
\* of a thousandth leave
TransferAmount(balance_wei, gas_cost) ==
    LET amount == (balance_wei * 95) \div 100
    IN  IF amount + gas_cost > balance_wei
        THEN balance_wei - gas_cost - (balance_wei \div 1000)
        ELSE amount

\* return_amount: the balance less the gas cost and a buffer of a
\* thousandth, or half the balance when that is not positive
ReturnAmount(balance_wei, return_gas_cost) ==
    LET amount == balance_wei - return_gas_cost - (balance_wei \div 1000)
    IN  IF amount <= 0 THEN balance_wei \div 2 ELSE amount

\* what get_balance can report for the session key after the transfer
SessionKeyBalances(amount) ==
    {b \in {0, 1, 100, amount - 1, amount, amount + 21000} : b >= 0}

ScnInit ==
    /\ scn_pc = "start"
    /\ estimated_gas = 0
    /\ transfer_amount = 0
    /\ session_key_balance = 0
    /\ return_gas_price = 0
    /\ return_estimated_gas = 0
    /\ return_amount = 0
    /\ receipt = Null
    /\ ClientInit /\ WaitIdle /\ StressIdle /\ RateIdle /\ ExpIdle /\ DelIdle

\* step 2: wait_for_funds returns a positive balance or raises TimeoutError
ScnFund ==
    /\ scn_pc = "start"
    /\ \/ scn_pc' = "raised" /\ UNCHANGED initial_balance
       \/ /\ \E b \in Balances : initial_balance' = b
          /\ scn_pc' = "plan_transfer"
    /\ UNCHANGED <<stress_pc, gas_price, total_session_keys, gas_reserve,
                   amount_per_session_key, idx, successful_transfers,
                   failed_transfers, total_sent, estimated_gas, transfer_amount,
                   session_key_balance, return_gas_price, return_estimated_gas,
                   return_amount, receipt, waitVars, clientVars, rateVars,
                   expVars, delVars>>

\* step 3: create_session_key, get_gas_price and estimate_gas (any of which
\* can raise), then the transfer amount
ScnPlanTransfer ==
    /\ scn_pc = "plan_transfer"
    /\ \/ /\ scn_pc' = "raised"
          /\ UNCHANGED <<gas_price, estimated_gas, transfer_amount>>
       \/ \E price \in 0..MaxGasPrice, gas \in GasChoices :
              /\ gas_price' = price
              /\ estimated_gas' = gas
              /\ transfer_amount' = TransferAmount(initial_balance, gas * price)
              /\ scn_pc' = "send_transfer"
    /\ UNCHANGED <<stress_pc, initial_balance, total_session_keys, gas_reserve,
                   amount_per_session_key, idx, successful_transfers,
                   failed_transfers, total_sent, session_key_balance,
                   return_gas_price, return_estimated_gas, return_amount,
                   receipt, waitVars, clientVars, rateVars,
                   expVars, delVars>>

\* step 3: send_transaction(session_key_address, transfer_amount, ...)
ScnSendTransfer ==
    /\ scn_pc = "send_transfer"
    /\ scn_pc' \in {"raised", "verify"}
    /\ UNCHANGED <<stressVars, estimated_gas, transfer_amount,
                   session_key_balance, return_gas_price, return_estimated_gas,
                   return_amount, receipt, waitVars, clientVars, rateVars,
                   expVars, delVars>>

\* step 4: the balance of the session key; main() returns when it is below
\* 99% of the transfer
ScnVerify ==
    /\ scn_pc = "verify"
    /\ \/ scn_pc' = "raised" /\ UNCHANGED session_key_balance
       \/ \E b \in SessionKeyBalances(transfer_amount) :
              /\ session_key_balance' = b
              /\ scn_pc' = IF b >= (transfer_amount * 99) \div 100
                           THEN "plan_return" ELSE "not_verified"
    /\ UNCHANGED <<stressVars, estimated_gas, transfer_amount,
                   return_gas_price, return_estimated_gas, return_amount,
                   receipt, waitVars, clientVars, rateVars,
                   expVars, delVars>>

\* step 5: get_gas_price and estimate_gas for the return, then its amount
ScnPlanReturn ==
    /\ scn_pc = "plan_return"
    /\ \/ /\ scn_pc' = "raised"
          /\ UNCHANGED <<return_gas_price, return_estimated_gas, return_amount>>
       \/ \E price \in 0..MaxGasPrice, gas \in GasChoices :
              /\ return_gas_price' = price
              /\ return_estimated_gas' = gas
              /\ return_amount' = ReturnAmount(session_key_balance, gas * price)
              /\ scn_pc' = "send_return"
    /\ UNCHANGED <<stressVars, estimated_gas, transfer_amount,
                   session_key_balance, receipt, waitVars, clientVars, rateVars,
                   expVars, delVars>>

\* step 5: send_transaction_from_session_key(..., value_wei=return_amount,
\* gas=return_estimated_gas, gas_price=return_gas_price)
ScnSendReturn ==
    /\ scn_pc = "send_return"
    /\ scn_pc' \in {"raised", "return_sent"}
    /\ UNCHANGED <<stressVars, estimated_gas, transfer_amount,
                   session_key_balance, return_gas_price, return_estimated_gas,
                   return_amount, receipt, waitVars, clientVars, rateVars,
                   expVars, delVars>>

ScnNext ==
    \/ ScnFund
    \/ ScnPlanTransfer
    \/ ScnSendTransfer
    \/ ScnVerify
    \/ ScnPlanReturn
    \/ ScnSendReturn

SpecScn == ScnInit /\ [][ScnNext]_vars

\* C17: in the single session key scenarios the transfer that funds the
\* session key leaves enough for gas: the amount handed to send_transaction
\* and the gas cost together do not exceed the initial balance.
C17_TransferLeavesGas ==
    scn_pc \in {"send_transfer", "verify", "not_verified", "plan_return",
                "send_return", "return_sent"}
        => transfer_amount + estimated_gas * gas_price <= initial_balance

\* the transfer was sent after the 95% share had to be reduced for the gas
C17_Witness ==
    /\ scn_pc = "verify"
    /\ initial_balance = 21000 * MaxUnits
    /\ estimated_gas * gas_price = 21000
    /\ transfer_amount = initial_balance - 21000 - initial_balance \div 1000
    /\ transfer_amount < (initial_balance * 95) \div 100

\* C18: in the session key transaction scenario the amount sent back from
\* the session key leaves enough for gas: the return amount and the gas
\* cost of the return together do not exceed the session key's balance.
C18_ReturnLeavesGas ==
    scn_pc \in {"send_return", "return_sent"}
        => return_amount + return_estimated_gas * return_gas_price
               <= session_key_balance

(***************************************************************************)
(* The return funds on delete scenario, main(), steps 5 and 6, from the    *)
(* state in which step 4 has found the transfer on the session key (steps  *)
(* 2 to 4 are those of the transaction scenario).  Deleting the session    *)
(* key should make the gateway return its funds to the account.            *)
(***************************************************************************)
\* the account's balance before the deletion
BeforeBalances == {0, 100}

\* the account's balance after the deletion
FinalBalances == {0, 100, 150}

\* the session key's balance after the deletion
KeyFinalBalances == {0, 1}

DeleteInit ==
    /\ scn_pc = "delete_key"
    /\ stress_pc = "idle"
    /\ initial_balance \in Balances
    /\ gas_price \in 0..MaxGasPrice
    /\ total_session_keys = 0
    /\ gas_reserve = 0
    /\ amount_per_session_key = 0
    /\ idx = 0
    /\ successful_transfers = 0
    /\ failed_transfers = 0
    /\ total_sent = 0
    /\ estimated_gas \in GasChoices
    /\ transfer_amount = TransferAmount(initial_balance, estimated_gas * gas_price)
    /\ session_key_balance \in
           {b \in SessionKeyBalances(transfer_amount) :
                b >= (transfer_amount * 99) \div 100}
    /\ return_gas_price = 0
    /\ return_estimated_gas = 0
    /\ return_amount = 0
    /\ receipt = Null
    /\ DelIdle
    /\ ClientInit /\ WaitIdle /\ RateIdle /\ ExpIdle

\* step 5: the balance before the deletion, then delete_session_key, whose
\* result is logged; an exception of either call is not caught
DeleteKey ==
    /\ scn_pc = "delete_key"
    /\ \/ /\ scn_pc' = "raised"
          /\ UNCHANGED <<balance_before_deletion, deleted>>
       \/ /\ \E b \in BeforeBalances : balance_before_deletion' = b
          /\ \/ scn_pc' = "raised" /\ UNCHANGED deleted
             \/ scn_pc' = "verify_return" /\ deleted' \in BOOLEAN
    /\ UNCHANGED <<final_balance, session_key_final_balance, stressVars,
                   estimated_gas, transfer_amount, session_key_balance,
                   return_gas_price, return_estimated_gas, return_amount,
                   receipt, waitVars, clientVars, rateVars, expVars>>

\* step 6: the two balances after the deletion are read (not caught)
DeleteVerifyReturn ==
    /\ scn_pc = "verify_return"
    /\ \/ /\ scn_pc' = "raised"
          /\ UNCHANGED <<final_balance, session_key_final_balance>>
       \/ /\ \E b \in FinalBalances : final_balance' = b
          /\ \/ scn_pc' = "raised" /\ UNCHANGED session_key_final_balance
             \/ /\ \E k \in KeyFinalBalances : session_key_final_balance' = k
                /\ scn_pc' = "summary"
    /\ UNCHANGED <<balance_before_deletion, deleted, stressVars,
                   estimated_gas, transfer_amount, session_key_balance,
                   return_gas_price, return_estimated_gas, return_amount,
                   receipt, waitVars, clientVars, rateVars, expVars>>

\* the rest of step 6: the balance increase and the share returned are
\* logged (info, warning or error), then the final message
DeleteSummary ==
    /\ scn_pc = "summary"
    /\ scn_pc' = "completed_successfully"
    /\ UNCHANGED <<delVars, stressVars, estimated_gas, transfer_amount,
                   session_key_balance, return_gas_price, return_estimated_gas,
                   return_amount, receipt, waitVars, clientVars, rateVars,
                   expVars>>

DeleteNext ==
    \/ DeleteKey
    \/ DeleteVerifyReturn
    \/ DeleteSummary

SpecDelete == DeleteInit /\ [][DeleteNext]_vars

\* C22: the return funds on delete scenario logs 'completed successfully'
\* only when the funds were returned: the balance after delete_session_key
\* is strictly greater than the balance before it, and the deletion did not
\* return False.
C22_SuccessOnlyWhenReturned ==
    scn_pc = "completed_successfully" =>
        (final_balance > balance_before_deletion /\ deleted)

(***************************************************************************)
(* The join rate limit scenario: NUM_REQUESTS calls of make_join_request   *)
(* submitted to a pool of MAX_WORKERS threads, and main() collecting the   *)
(* futures as they complete.  The script sends 5000 requests with 100      *)
(* workers; the model keeps the structure with smaller numbers.            *)
(***************************************************************************)
NUM_REQUESTS == 3
MAX_WORKERS  == 2

Requests == 1..NUM_REQUESTS

\* what requests.get(..., timeout=10) does for one request
PoolAnswers ==
    {TransportError, Response(200, "a1", NotJson),
     Response(429, "rate limited", NotJson), Response(500, "", NotJson)}

\* make_join_request without its try/except: the exception reaches the future
MakeJoinRequestUncaught(answer) ==
    IF answer.exc THEN [raised |-> TRUE, value |-> 0]
    ELSE [raised |-> FALSE, value |-> answer.status]

\* make_join_request(base_url): the status code, or 0 when the request raised
MakeJoinRequest(answer) ==
    IF answer.exc THEN [raised |-> FALSE, value |-> 0]
    ELSE [raised |-> FALSE, value |-> answer.status]

Pending == [state |-> "pending", answer |-> NoAnswer, raised |-> FALSE,
            value |-> 0, collected |-> FALSE]

Running == {i \in Requests : futures[i].state = "running"}

CountOf(code) == Cardinality({k \in DOMAIN status_codes : status_codes[k] = code})

RateInit ==
    /\ futures = [i \in Requests |-> Pending]
    /\ status_codes = <<>>
    /\ main_pc = "collect"
    /\ counts = [success |-> 0, rate_limited |-> 0, other |-> 0]
    /\ ClientInit /\ WaitIdle /\ StressIdle /\ ScnIdle /\ ExpIdle /\ DelIdle

\* a free worker thread takes the next work item from the executor's queue
WorkerStart ==
    /\ \E i \in Requests :
           /\ futures[i].state = "pending"
           /\ \A j \in Requests : j < i => futures[j].state # "pending"
           /\ Cardinality(Running) < MAX_WORKERS
           /\ futures' = [futures EXCEPT ![i].state = "running"]
    /\ UNCHANGED <<status_codes, main_pc, counts, waitVars, clientVars, stressVars, scnVars,
                   expVars, delVars>>

\* a worker thread runs make_join_request to its end and sets the future
WorkerFinish ==
    /\ \E i \in Running, answer \in PoolAnswers :
           LET r == MakeJoinRequest(answer)
           IN  futures' = [futures EXCEPT ![i] =
                   [state |-> "finished", answer |-> answer, raised |-> r.raised,
                    value |-> r.value, collected |-> FALSE]]
    /\ UNCHANGED <<status_codes, main_pc, counts, waitVars, clientVars, stressVars, scnVars,
                   expVars, delVars>>

\* main: as_completed yields a finished future; status_codes.append(future.result())
MainCollect ==
    /\ main_pc = "collect"
    /\ \E i \in Requests :
           /\ futures[i].state = "finished"
           /\ ~futures[i].collected
           /\ futures' = [futures EXCEPT ![i].collected = TRUE]
           /\ IF futures[i].raised
              THEN main_pc' = "crashed" /\ UNCHANGED status_codes
              ELSE /\ status_codes' = Append(status_codes, futures[i].value)
                   /\ UNCHANGED main_pc
    /\ UNCHANGED <<counts, waitVars, clientVars, stressVars, scnVars,
                   expVars, delVars>>

\* main: every future was yielded; count the results
MainCount ==
    /\ main_pc = "collect"
    /\ \A i \in Requests : futures[i].collected
    /\ counts' = [success      |-> CountOf(200),
                  rate_limited |-> CountOf(429),
                  other        |-> Len(status_codes) - CountOf(200) - CountOf(429)]
    /\ main_pc' = "done"
    /\ UNCHANGED <<futures, status_codes, waitVars, clientVars, stressVars, scnVars,
                   expVars, delVars>>

RateNext ==
    \/ WorkerStart
    \/ WorkerFinish
    \/ MainCollect
    \/ MainCount

SpecRate == RateInit /\ [][RateNext]_vars

\* the status that request i stands for: 0 when it raised
StatusOf(i) == IF futures[i].answer.exc THEN 0 ELSE futures[i].answer.status

\* C10: under every interleaving and every mix of outcomes, main() is not
\* ended by a request that raised, and at its end every request has exactly
\* one entry in status_codes (0 for a request that raised), so that
\* len(status_codes) = NUM_REQUESTS = success + rate_limited + other, other >= 0.
C10_OneEntryPerRequest ==
    /\ main_pc # "crashed"
    /\ Len(status_codes) = Cardinality({i \in Requests : futures[i].collected})
    /\ main_pc = "done" =>
           /\ Len(status_codes) = NUM_REQUESTS
           /\ \A code \in {0, 200, 429, 500} :
                  CountOf(code) =
                      Cardinality({i \in Requests : StatusOf(i) = code})
           /\ counts.success + counts.rate_limited + counts.other = NUM_REQUESTS
           /\ counts.other >= 0

\* a run with a request that raised, one that succeeded and one rate limited
C10_Witness ==
    /\ main_pc = "done"
    /\ \E i \in Requests : futures[i].answer.exc
    /\ counts.other > 0
    /\ counts.success > 0
    /\ counts.rate_limited > 0

====
